---- MODULE Spec2Model ----
(***************************************************************************)
(* Discord Link Guardian: threat scoring (LinkGuardianBot.analyze_link,    *)
(* AIAnalyzer) and the moderation escalation flow (on_message,             *)
(* handle_analysis_result, ModerationSystem, Database).                    *)
(*                                                                         *)
(* Numbers.  Scores and confidences are reals in the code; here a real x   *)
(* is the integer x * One, One = 600, so that the fractions k/6 of the     *)
(* heuristic confidence and the tenths of the thresholds are all exact.    *)
(* An average (a + b) / 2 is never formed: it is compared as a + b against *)
(* twice the threshold.                                                    *)
(*                                                                         *)
(* Time.  One tick of the clock is six hours.  `now` is the UTC clock      *)
(* (SQLite's datetime('now')); Python's datetime.now() is the local        *)
(* clock, now + tz_offset.                                                 *)
(***************************************************************************)
EXTENDS Integers, Sequences, FiniteSets, TLC

VARIABLES
    urllib_imported,  \* does the name `urllib` resolve inside ai_analyzer.py
    tz_offset,        \* local clock minus UTC clock, in ticks
    now,              \* UTC clock
    warnings,         \* table warnings: set of rows
    mutes,            \* table mutes: set of rows
    bans,             \* table bans
    link_history,     \* table link_history
    next_id,          \* AUTOINCREMENT counters, per table
    muted_role,       \* guild -> number of roles named "Muted" (ids 1..n)
    overwrites,       \* guild -> set of <<role, channel>> deny overwrites
    member_roles,     \* guild -> user -> set of "Muted" roles the member holds
    tasks,            \* message handlers in flight (one coroutine per message)
    sweep,            \* the check_mutes loop
    a_pc, a_in, a_out \* one call under study (an analysis of one URL, a
                      \* query of the store): position, input, output

vars == <<urllib_imported, tz_offset, now, warnings, mutes, bans, link_history,
          next_id, muted_role, overwrites, member_roles, tasks, sweep,
          a_pc, a_in, a_out>>

env_vars == <<urllib_imported, tz_offset>>
db_vars == <<warnings, mutes, bans, link_history, next_id>>
guild_vars == <<muted_role, overwrites, member_roles>>
analysis_vars == <<a_pc, a_in, a_out>>

-----------------------------------------------------------------------------
(* Scale *)

One == 6 * 100

Tenths(k) == (k * One) \div 10

-----------------------------------------------------------------------------
(* Verdicts *)

Levels == {"safe", "caution", "suspicious", "danger"}

NoFlags == << >>

Verdict(score, conf, flags) ==
    [raised |-> FALSE, threat_score |-> score, confidence |-> conf, flags |-> flags]

\* an exception leaving the callee
Raised == [raised |-> TRUE, threat_score |-> 0, confidence |-> 0, flags |-> NoFlags]

-----------------------------------------------------------------------------
(* Heuristic aggregator (link_analyzer.py is not part of the sources; it   *)
(* is modelled from section 4.1 of the specification)                      *)

TotalChecks == 6

Clamp(x) == IF x < 0 THEN 0 ELSE IF x > One THEN One ELSE x

\* completed: number of checks that completed; sum: sum of their contributions
LinkAnalyzer_analyze(completed, sum, flags) ==
    Verdict(IF completed = 0 THEN 0 ELSE Clamp(sum),
            (completed * One) \div TotalChecks,
            IF completed = 0 THEN NoFlags ELSE flags)

-----------------------------------------------------------------------------
(* AIAnalyzer *)

\* the score table with medium and high exchanged
ai_content_analysis_exchanged(call, threat_level, confidence, indicators) ==
    IF call = "ok"
    THEN Verdict(CASE threat_level = "high"   -> Tenths(5)
                   [] threat_level = "medium" -> Tenths(8)
                   [] threat_level = "low"    -> Tenths(2)
                   [] OTHER                   -> 0,
                 confidence, indicators)
    ELSE Verdict(0, 0, <<"AI analysis unavailable">>)

\* ai_content_analysis: call is the outcome of the backend call and of
\* json.loads: "fail" (call raises), "unparsable" (json.loads raises), "ok"
ai_content_analysis(call, threat_level, confidence, indicators) ==
    IF call = "ok"
    THEN Verdict(CASE threat_level = "high"   -> Tenths(8)
                   [] threat_level = "medium" -> Tenths(5)
                   [] threat_level = "low"    -> Tenths(2)
                   [] OTHER                   -> 0,
                 confidence, indicators)
    ELSE Verdict(0, 0, <<"AI analysis unavailable">>)

\* search_web_reputation: found iff at least one query returned a result;
\* line 173 uses urllib, which the module never imports (NameError)
search_web_reputation(found) ==
    IF ~urllib_imported THEN "NameError"
    ELSE IF found THEN "results" ELSE "empty"

\* ai_reputation_analysis returns json.loads(response) as it is, {} on any
\* failure: call is "ok" (a JSON object), "not_object" (valid JSON of
\* another type, a list or a number) or "fail"
ai_reputation_analysis(call, has_complaints) ==
    IF call = "ok" THEN [object |-> TRUE, has_complaints |-> has_complaints]
    ELSE IF call = "not_object" THEN [object |-> FALSE, has_complaints |-> FALSE]
    ELSE [object |-> TRUE, has_complaints |-> FALSE]

Providers == {"openai", "anthropic", "local"}

\* lines 134-139: the backend ai_content_analysis calls
content_backend(provider) ==
    IF provider = "openai" THEN "openai"
    ELSE IF provider = "anthropic" THEN "anthropic"
    ELSE "local"

\* lines 228-231: the backend ai_reputation_analysis calls
reputation_backend(provider) ==
    IF provider = "openai" THEN "openai" ELSE "local"

\* a verdict together with the backends that were called, in order
WithCalls(v, calls) ==
    [raised |-> v.raised, threat_score |-> v.threat_score,
     confidence |-> v.confidence, flags |-> v.flags, calls |-> calls]

\* AIAnalyzer.analyze over the outcomes of its steps
analyze(in) ==
    LET result0 == Verdict(0, 0, NoFlags)
        result1 == IF in.fetch_ok
                   THEN ai_content_analysis(in.ai_call, in.ai_level,
                                            in.ai_conf, in.indicators)
                   ELSE result0
        search  == search_web_reputation(in.search_found)
        rep     == ai_reputation_analysis(in.rep_call, in.has_complaints)
        calls1  == IF in.fetch_ok THEN <<content_backend(in.provider)>>
                   ELSE << >>
        calls2  == Append(calls1, reputation_backend(in.provider))
    IN  IF search = "NameError" THEN WithCalls(Raised, calls1)
        ELSE IF search # "results" THEN WithCalls(result1, calls1)
        ELSE IF ~rep.object         \* line 50: .get on a list (AttributeError)
        THEN WithCalls(Raised, calls2)
        ELSE IF rep.has_complaints
        THEN WithCalls(Verdict(result1.threat_score + Tenths(4),
                               result1.confidence,
                               Append(result1.flags,
                                      "Negative reviews/complaints found")),
                       calls2)
        ELSE WithCalls(result1, calls2)

-----------------------------------------------------------------------------
(* LinkGuardianBot: scoring *)

\* the thresholds taken as strict
determine_threat_level_strict(basic, ai) ==
    LET sum == basic.threat_score + ai.threat_score
    IN  IF sum > 2 * Tenths(8) THEN "danger"
        ELSE IF sum > 2 * Tenths(5) THEN "suspicious"
        ELSE IF sum > 2 * Tenths(2) THEN "caution"
        ELSE "safe"

determine_threat_level(basic, ai) ==
    LET sum == basic.threat_score + ai.threat_score   \* 2 * avg_score
    IN  IF sum >= 2 * Tenths(8) THEN "danger"
        ELSE IF sum >= 2 * Tenths(5) THEN "suspicious"
        ELSE IF sum >= 2 * Tenths(2) THEN "caution"
        ELSE "safe"

\* the result dict with the larger of the two confidences (twice) and
\* the flags as a set
analyze_link_max_confidence(in) ==
    LET basic == LinkAnalyzer_analyze(in.completed, in.sum, in.basic_flags)
        ai    == analyze(in)
        max   == IF basic.confidence > ai.confidence THEN basic.confidence
                 ELSE ai.confidence
    IN  IF ai.raised
        THEN [raised |-> TRUE, threat_level |-> "unknown", score2 |-> 0,
              confidence2 |-> 0, reasons |-> NoFlags, basic |-> basic, ai |-> ai]
        ELSE [raised |-> FALSE,
              threat_level |-> determine_threat_level(basic, ai),
              score2 |-> basic.threat_score + ai.threat_score,
              confidence2 |-> 2 * max,
              reasons |-> IF basic.flags = ai.flags THEN basic.flags
                          ELSE basic.flags \o ai.flags,
              basic |-> basic, ai |-> ai]

\* analyze_link: the result dict, or the exception of AIAnalyzer.analyze.
\* score2 and confidence2 are twice the averages.
analyze_link(in) ==
    LET basic == LinkAnalyzer_analyze(in.completed, in.sum, in.basic_flags)
        ai    == analyze(in)
    IN  IF ai.raised
        THEN [raised |-> TRUE, threat_level |-> "unknown", score2 |-> 0,
              confidence2 |-> 0, reasons |-> NoFlags, basic |-> basic, ai |-> ai]
        ELSE [raised |-> FALSE,
              threat_level |-> determine_threat_level(basic, ai),
              score2 |-> basic.threat_score + ai.threat_score,
              confidence2 |-> basic.confidence + ai.confidence,
              reasons |-> basic.flags \o ai.flags,
              basic |-> basic, ai |-> ai]

-----------------------------------------------------------------------------
(* Bounds *)

MaxUrls == 2
MaxWarnings == 4
MaxNow == 61

Guilds == {1}
Users == {1}            \* members who post links
Moderators == {2}       \* members with manage_roles, who post commands only
Channels == {1, 2}
TaskIds == {1, 2}

\* one tick of the clock is six hours
TicksPerDay == 24 \div 6

\* datetime.now() minus UTC, in ticks: a host on UTC and one on UTC+12
TZOffsets == {0, 2}

-----------------------------------------------------------------------------
(* Database *)

local_now == now + tz_offset          \* datetime.now()

WarningRow(id, g, u) == [id |-> id, guild_id |-> g, user_id |-> u]

MuteRow(id, g, u, mute_end) ==
    [id |-> id, guild_id |-> g, user_id |-> u, mute_end |-> mute_end]

\* the insert taken as INSERT OR REPLACE on (guild_id, user_id)
Database_insert_warning_replacing(g, u) ==
    /\ warnings' = {w \in warnings : ~(w.guild_id = g /\ w.user_id = u)}
                      \cup {WarningRow(next_id.warnings, g, u)}
    /\ next_id' = [next_id EXCEPT !.warnings = @ + 1]

\* INSERT INTO warnings; commit
Database_insert_warning(g, u) ==
    /\ warnings' = warnings \cup {WarningRow(next_id.warnings, g, u)}
    /\ next_id' = [next_id EXCEPT !.warnings = @ + 1]

\* SELECT COUNT(*) FROM warnings WHERE guild_id = ? AND user_id = ?
count_warnings(g, u) ==
    Cardinality({w \in warnings : w.guild_id = g /\ w.user_id = u})

\* the query with the guild left out of the WHERE clause
get_warnings_of_user(g, u) == {w \in warnings : w.user_id = u}

\* SELECT * FROM warnings WHERE guild_id = ? AND user_id = ?
get_warnings(g, u) == {w \in warnings : w.guild_id = g /\ w.user_id = u}

\* INSERT INTO mutes; commit.  No uniqueness constraint on (guild_id, user_id).
add_mute(g, u, mute_end) ==
    /\ mutes' = mutes \cup {MuteRow(next_id.mutes, g, u, mute_end)}
    /\ next_id' = [next_id EXCEPT !.mutes = @ + 1]

\* SELECT * FROM mutes WHERE guild_id = ? AND mute_end > datetime('now')
get_active_mutes(g) == {m \in mutes : m.guild_id = g /\ m.mute_end > now}

\* DELETE FROM mutes WHERE guild_id = ? AND user_id = ?
remove_mute(g, u) == {m \in mutes : ~(m.guild_id = g /\ m.user_id = u)}

-----------------------------------------------------------------------------
(* ModerationSystem: queries *)

is_user_muted(g, u) == \E m \in get_active_mutes(g) : m.user_id = u

\* discord.utils.get(guild.roles, name="Muted"): the first such role, 0 if none
get_muted_role(g) == IF muted_role[g] = 0 THEN 0 ELSE 1

-----------------------------------------------------------------------------
(* Message handlers.  Each task is the coroutine of one on_message call;   *)
(* a step runs from one await that touches shared state to the next.       *)

Idle == [pc |-> "idle", guild |-> 1, author |-> 1, urls |-> 0,
         deleted |-> FALSE, advisory |-> "none", level |-> "none",
         escalated |-> FALSE, role |-> 0, target |-> 0]

\* the outcomes of the steps of one URL's analysis: what LinkAnalyzer's
\* checks and the AI backend return, and whether the whole of it took
\* longer than the overall deadline (overdue)
Input(completed, sum, fetch_ok, ai_call, ai_level, ai_conf) ==
    [completed |-> completed, sum |-> sum, basic_flags |-> NoFlags,
     fetch_ok |-> fetch_ok, ai_call |-> ai_call, ai_level |-> ai_level,
     ai_conf |-> ai_conf, indicators |-> NoFlags, search_found |-> FALSE,
     rep_call |-> "fail", has_complaints |-> FALSE, provider |-> "openai",
     overdue |-> FALSE]

\* the analyses a message's URL can get: one input per branch of
\* handle_analysis_result (danger above and below the confidence
\* threshold, suspicious, caution, safe)
UrlInputs ==
    { Input(6, One, TRUE, "ok", "high", One),
      Input(3, One, TRUE, "ok", "high", Tenths(5)),
      Input(6, Tenths(5), TRUE, "ok", "high", One),
      Input(6, Tenths(5), TRUE, "ok", "low", One),
      Input(0, 0, FALSE, "fail", "none", 0) }

\* outcomes of message.delete(): done, discord.Forbidden, or another
\* HTTPException (discord.NotFound when the message is already gone)
DeleteOutcomes(deleted) ==
    IF deleted THEN {"error"} ELSE {"ok", "forbidden", "error"}

\* handle_analysis_result is over for this URL: the status message has its
\* final embed
NextUrl(rec) == [rec EXCEPT !.pc = "url_done", !.role = 0]

\* except Exception in process_links: the status message becomes
\* "Analysis Error" and the loop goes on
AnalysisError(rec) == NextUrl([rec EXCEPT !.advisory = "error"])

\* the except handler itself awaits status_msg.edit (line 126): when that
\* raises too, the exception leaves process_links and on_message, and the
\* handler ends with the status message as it was
ErrorOutcomes(rec) == {AnalysisError(rec), Idle}

Escalating == {t \in TaskIds : tasks[t].pc = "add_warning"}

\* what is left of on_message once a URL is done touches nothing shared:
\* it is taken before any other step
Returning == \E t \in TaskIds : tasks[t].pc = "url_done"

\* the messages of author u that slot t takes: links (the first slot takes
\* the messages of several URLs), !warnings member, and for a moderator
\* !unmute member (has_permissions(manage_roles=True), line 319)
Messages(t, g, u) ==
    LET msg == [Idle EXCEPT !.guild = g, !.author = u] IN
    (IF u \in Users
     THEN {[msg EXCEPT !.urls = n, !.pc = "process_links"] :
             n \in 1..(IF t = 1 THEN MaxUrls ELSE 1)}
     ELSE {})
    \cup {[msg EXCEPT !.pc = "check_warnings", !.target = v] : v \in Users}
    \cup (IF u \in Moderators
          THEN {[msg EXCEPT !.pc = "unmute_user", !.target = v] : v \in Users}
          ELSE {})

\* on_message, lines 78-97: a message of a non-bot author arrives and meets
\* the mute gate.  The coroutines are interchangeable: a new one takes the
\* lowest free slot.
on_message(t) ==
    /\ ~Returning
    /\ tasks[t].pc = "idle"
    /\ \A k \in TaskIds : k < t => tasks[k].pc # "idle"
    /\ \E g \in Guilds, u \in Users \cup Moderators :
         \E msg \in Messages(t, g, u) :
             IF is_user_muted(g, u)
             THEN \E d \in DeleteOutcomes(FALSE) :
                    tasks' = [tasks EXCEPT ![t] =
                                CASE d = "ok"        -> Idle    \* return
                                  [] d = "forbidden" -> msg     \* logged
                                  [] OTHER           -> Idle]   \* raised
             ELSE tasks' = [tasks EXCEPT ![t] = msg]
    /\ UNCHANGED <<env_vars, now, db_vars, guild_vars, sweep, analysis_vars>>

\* lines 101 and 97: the for loop of process_links goes on to the next URL,
\* which gets a status message of its own; after the last one on_message
\* calls process_commands (the message is no command) and returns
process_links_next(t) ==
    LET rec == tasks[t] IN
    /\ rec.pc = "url_done"
    /\ tasks' = [tasks EXCEPT ![t] =
                   IF rec.urls > 1
                   THEN [rec EXCEPT !.urls = @ - 1, !.pc = "process_links",
                                    !.advisory = "none", !.level = "none",
                                    !.escalated = FALSE]
                   ELSE Idle]
    /\ UNCHANGED <<env_vars, now, db_vars, guild_vars, sweep, analysis_vars>>

\* the test of the danger branch with the level left out
escalates_any_level(result) == result.confidence2 > 2 * Tenths(7)

\* the test of the danger branch with the threshold included
escalates_from_threshold(result) ==
    result.threat_level = "danger" /\ result.confidence2 >= 2 * Tenths(7)

\* line 186: threat_level == 'danger' and confidence > 0.7
escalates(result) ==
    result.threat_level = "danger" /\ result.confidence2 > 2 * Tenths(7)

\* handle_analysis_result, lines 186-272: the branch taken, named by the
\* embed the status message ends with ("Link Appears Safe" is deleted again
\* after asyncio.sleep(10))
handle_analysis_result(result) ==
    IF escalates(result) THEN "danger"
    ELSE IF result.threat_level = "suspicious" THEN "suspicious"
    ELSE IF result.threat_level = "caution" THEN "caution"
    ELSE "safe_deleted"

\* process_links, one iteration up to the first await of the escalation:
\* status message, analyze_link, and the branch of handle_analysis_result
process_links(t) ==
    LET rec == tasks[t] IN
    /\ ~Returning
    /\ rec.pc = "process_links"
    /\ \/ tasks' = [tasks EXCEPT ![t] = Idle]   \* line 110, channel.send raises
       \/ \E in \in UrlInputs :
         LET result == analyze_link(in)
             r0 == [rec EXCEPT !.advisory = "analyzing",
                               !.level = result.threat_level]
         IN
         IF result.raised
         THEN \E r \in ErrorOutcomes(r0) : tasks' = [tasks EXCEPT ![t] = r]
         ELSE IF escalates(result)
         THEN /\ Cardinality(warnings) + Cardinality(Escalating) < MaxWarnings
              /\ \E d \in DeleteOutcomes(rec.deleted) :
                   LET r1 == [r0 EXCEPT !.escalated = TRUE] IN
                   \E r \in CASE d = "ok" ->   \* deleted: read by the later URLs
                                  {[r1 EXCEPT !.pc = "add_warning",
                                              !.deleted = rec.urls > 1]}
                             [] d = "forbidden" ->
                                  {[r1 EXCEPT !.pc = "add_warning"]}
                             [] OTHER -> {AnalysisError(r1), Idle} :
                      tasks' = [tasks EXCEPT ![t] = r]
         ELSE \* lines 231-272: the embed of the level (for a level other
              \* than suspicious and caution "Link Appears Safe", deleted
              \* after asyncio.sleep(10)), or status_msg.edit raises
              \E r \in {NextUrl([r0 EXCEPT !.advisory =
                                             handle_analysis_result(result)])}
                        \cup ErrorOutcomes(r0) :
                 tasks' = [tasks EXCEPT ![t] = r]
    /\ UNCHANGED <<env_vars, now, db_vars, guild_vars, sweep, analysis_vars>>

\* Database.add_warning, lines 70-75: the insert and its commit
add_warning(t) ==
    /\ ~Returning
    /\ tasks[t].pc = "add_warning"
    /\ \/ /\ Database_insert_warning(tasks[t].guild, tasks[t].author)
          /\ tasks' = [tasks EXCEPT ![t].pc = "count"]
       \/ /\ UNCHANGED <<warnings, next_id>>    \* the store raises
          /\ \E r \in ErrorOutcomes(tasks[t]) : tasks' = [tasks EXCEPT ![t] = r]
    /\ UNCHANGED <<env_vars, now, mutes, bans, link_history, guild_vars, sweep,
                   analysis_vars>>

\* the threshold test passing from the second warning on
reaches_mute_threshold_early(warning_count) == warning_count >= 2

\* line 223: if warning_count >= 3
reaches_mute_threshold(warning_count) == warning_count >= 3

\* a ban row written once the count reaches four
ban_rows_at_four(g, u, warning_count) ==
    IF warning_count >= 4 THEN {[guild_id |-> g, user_id |-> u]} ELSE {}

\* lines 222-229: the rows the threshold test adds to the bans table.  The
\* test has the mute branch only, and nothing in bot.py or moderation.py
\* inserts into bans.
ban_rows(g, u, warning_count) == {}

\* Database.add_warning, lines 77-83, then handle_analysis_result, lines
\* 201-223: the count, the danger embed, notify_admins, the threshold test
count(t) ==
    LET rec == tasks[t]
        warning_count == count_warnings(rec.guild, rec.author)
        r1  == [rec EXCEPT !.advisory = "danger"]
    IN
    /\ ~Returning
    /\ rec.pc = "count"
    /\ \E sent \in BOOLEAN :      \* status_msg.edit and admin_channel.send
         \E r \in IF ~sent THEN ErrorOutcomes(rec)
                   ELSE IF reaches_mute_threshold(warning_count)
                   THEN {[r1 EXCEPT !.pc = "mute_user"]}
                   ELSE {NextUrl(r1)} :
            tasks' = [tasks EXCEPT ![t] = r]
    /\ bans' = bans \cup ban_rows(rec.guild, rec.author, warning_count)
    /\ UNCHANGED <<env_vars, now, warnings, mutes, link_history, next_id,
                   guild_vars, sweep, analysis_vars>>

-----------------------------------------------------------------------------
(* ModerationSystem.mute_user, called from handle_analysis_result          *)

duration_days == 15

\* lines 37-39: look the role up
mute_user(t) ==
    LET rec == tasks[t] g == rec.guild IN
    /\ ~Returning
    /\ rec.pc = "mute_user"
    /\ tasks' = [tasks EXCEPT ![t] =
                   IF get_muted_role(g) # 0
                   THEN [rec EXCEPT !.pc = "add_roles", !.role = get_muted_role(g)]
                   ELSE [rec EXCEPT !.pc = "create_role"]]
    /\ UNCHANGED <<env_vars, now, db_vars, guild_vars, sweep, analysis_vars>>

\* lines 40-56: guild.create_role, then channel.set_permissions for each of
\* guild.channels in turn.  done is the number of awaits that succeed: 0
\* when create_role raises, 1 + k when the k first channels are set.
create_role(t) ==
    LET rec == tasks[t] g == rec.guild new == muted_role[g] + 1 IN
    /\ ~Returning
    /\ rec.pc = "create_role"
    /\ \E done \in 0..(1 + Cardinality(Channels)) :
         /\ muted_role' = [muted_role EXCEPT ![g] = IF done = 0 THEN @ ELSE new]
         /\ overwrites' = [overwrites EXCEPT ![g] =
                             @ \cup {<<new, c>> : c \in {c \in Channels : c < done}}]
         /\ \E r \in IF done = 1 + Cardinality(Channels)
                      THEN {[rec EXCEPT !.pc = "add_roles", !.role = new]}
                      ELSE ErrorOutcomes(rec) :
              tasks' = [tasks EXCEPT ![t] = r]
    /\ UNCHANGED <<env_vars, now, db_vars, member_roles, sweep, analysis_vars>>

\* line 59: member.add_roles
add_roles(t) ==
    LET rec == tasks[t] g == rec.guild u == rec.author IN
    /\ ~Returning
    /\ rec.pc = "add_roles"
    /\ \E done \in BOOLEAN :
         IF done
         THEN /\ member_roles' = [member_roles EXCEPT ![g][u] = @ \cup {rec.role}]
              /\ tasks' = [tasks EXCEPT ![t].pc = "add_mute"]
         ELSE /\ \E r \in ErrorOutcomes(rec) : tasks' = [tasks EXCEPT ![t] = r]
              /\ UNCHANGED member_roles
    /\ UNCHANGED <<env_vars, now, db_vars, muted_role, overwrites, sweep,
                   analysis_vars>>

\* lines 62-63: mute_end = datetime.now() + timedelta(days); db.add_mute
mute_user_add_mute(t) ==
    LET rec == tasks[t] IN
    /\ ~Returning
    /\ rec.pc = "add_mute"
    /\ \/ /\ add_mute(rec.guild, rec.author,
                      local_now + duration_days * TicksPerDay)
          /\ tasks' = [tasks EXCEPT ![t] = NextUrl(rec)]
       \/ /\ UNCHANGED <<mutes, next_id>>       \* the store raises
          /\ \E r \in ErrorOutcomes(rec) : tasks' = [tasks EXCEPT ![t] = r]
    /\ UNCHANGED <<env_vars, now, warnings, bans, link_history, guild_vars,
                   sweep, analysis_vars>>

-----------------------------------------------------------------------------
(* ModerationSystem.unmute_user                                            *)

\* lines 69-72: the member's roles after the conditional remove_roles
unmute_user_roles(g, u) ==
    IF get_muted_role(g) # 0 /\ get_muted_role(g) \in member_roles[g][u]
    THEN [member_roles EXCEPT ![g][u] = @ \ {get_muted_role(g)}]
    ELSE member_roles

-----------------------------------------------------------------------------
(* Commands, dispatched by process_commands at the end of on_message       *)

\* !warnings, lines 293-316: reads get_warnings(guild, member) and sends
\* the embed
check_warnings(t) ==
    LET rec == tasks[t] IN
    /\ ~Returning
    /\ rec.pc = "check_warnings"
    /\ tasks' = [tasks EXCEPT ![t] = Idle]
    /\ UNCHANGED <<env_vars, now, db_vars, guild_vars, sweep, analysis_vars>>

\* !unmute, line 322, into ModerationSystem.unmute_user, lines 69-72
unmute_user(t) ==
    LET rec == tasks[t] g == rec.guild u == rec.target IN
    /\ ~Returning
    /\ rec.pc = "unmute_user"
    /\ \/ /\ member_roles' = unmute_user_roles(g, u)
          /\ tasks' = [tasks EXCEPT ![t] =
                 [rec EXCEPT !.pc = "remove_mute",   \* role: the one removed
                             !.role = IF member_roles' # member_roles
                                      THEN get_muted_role(g) ELSE 0]]
       \/ /\ unmute_user_roles(g, u) # member_roles  \* remove_roles raises
          /\ tasks' = [tasks EXCEPT ![t] = Idle]
          /\ UNCHANGED member_roles
    /\ UNCHANGED <<env_vars, now, db_vars, muted_role, overwrites, sweep,
                   analysis_vars>>

\* unmute_user, line 74, and the confirmation of the command
unmute_remove_mute(t) ==
    LET rec == tasks[t] IN
    /\ ~Returning
    /\ rec.pc = "remove_mute"
    /\ \/ mutes' = remove_mute(rec.guild, rec.target)
       \/ UNCHANGED mutes                          \* the store raises
    /\ tasks' = [tasks EXCEPT ![t] = Idle]
    /\ UNCHANGED <<env_vars, now, warnings, bans, link_history, next_id,
                   guild_vars, sweep, analysis_vars>>

-----------------------------------------------------------------------------
(* The check_mutes loop: ModerationSystem.check_expired_mutes              *)

SweepIdle == [pc |-> "idle", guild |-> 1, todo |-> {}, target |-> 0]

\* the row the for loop visits next: rows come in rowid order
FirstRow(rows) == CHOOSE m \in rows : \A k \in rows : m.id <= k.id

\* line 89: datetime.now() > mute_end
expired(mute) == local_now > mute.mute_end

\* the loop over `mutes` of guild g with `rows` left: on to the next row,
\* to the next of bot.guilds, or back to sleep until the next minute
SweepOn(g, rows) ==
    IF rows # {} THEN [pc |-> "loop", guild |-> g, todo |-> rows, target |-> 0]
    ELSE IF g + 1 \in Guilds
    THEN [pc |-> "guild", guild |-> g + 1, todo |-> {}, target |-> 0]
    ELSE SweepIdle

\* bot.check_mutes fires (pc idle), or the sweep reaches its next guild:
\* line 85, get_active_mutes
check_expired_mutes ==
    /\ ~Returning
    /\ sweep.pc \in {"idle", "guild"}
    /\ sweep' = SweepOn(sweep.guild, get_active_mutes(sweep.guild))
    /\ UNCHANGED <<env_vars, now, db_vars, guild_vars, tasks, analysis_vars>>

\* lines 87-92: one iteration of `for mute in mutes`.  guild.get_member
\* gives None for a member who has left the guild, and the row is passed over.
check_expired_mutes_loop ==
    LET g == sweep.guild
        mute == FirstRow(sweep.todo)
    IN
    /\ ~Returning
    /\ sweep.pc = "loop"
    /\ IF expired(mute)
       THEN \/ /\ member_roles' = unmute_user_roles(g, mute.user_id)
               /\ sweep' = [sweep EXCEPT !.pc = "remove_mute",
                                         !.todo = @ \ {mute},
                                         !.target = mute.user_id]
            \/ /\ sweep' = SweepOn(g, sweep.todo \ {mute})  \* get_member: None
               /\ UNCHANGED member_roles
            \/ /\ unmute_user_roles(g, mute.user_id) # member_roles
               /\ sweep' = SweepIdle             \* member.remove_roles raises
               /\ UNCHANGED member_roles
       ELSE /\ sweep' = SweepOn(g, sweep.todo \ {mute})
            /\ UNCHANGED member_roles
    /\ UNCHANGED <<env_vars, now, db_vars, muted_role, overwrites, tasks,
                   analysis_vars>>

\* unmute_user, line 74, inside the sweep
check_expired_mutes_remove ==
    /\ ~Returning
    /\ sweep.pc = "remove_mute"
    /\ \/ /\ mutes' = remove_mute(sweep.guild, sweep.target)
          /\ sweep' = SweepOn(sweep.guild, sweep.todo)
       \/ /\ UNCHANGED mutes                    \* the store raises: the
          /\ sweep' = SweepIdle                 \* exception ends this run
    /\ UNCHANGED <<env_vars, now, warnings, bans, link_history, next_id,
                   guild_vars, tasks, analysis_vars>>

-----------------------------------------------------------------------------
(* The clock *)

\* the instants at which the order of the two clocks and some mute_end
\* changes lie within the largest time-zone offset of that mute_end
NearExpiry == \E m \in mutes : m.mute_end - now \in -3..3

\* time passes: a whole mute duration, or a single tick near an expiry.
\* The clock is only ever read against a mute_end, so it is kept still
\* while the mutes table is empty.
Tick ==
    /\ ~Returning
    /\ mutes # {}
    /\ \E d \in {1, duration_days * TicksPerDay} :
         /\ d = 1 => NearExpiry
         /\ now + d <= MaxNow
         /\ now' = now + d
    /\ UNCHANGED <<env_vars, db_vars, guild_vars, tasks, sweep, analysis_vars>>

-----------------------------------------------------------------------------
(* The bot *)

NoInput == Input(0, 0, FALSE, "fail", "none", 0)

InitBot ==
    /\ urllib_imported \in BOOLEAN
    /\ now = 0
    /\ warnings = {}
    /\ mutes = {}
    /\ bans = {}
    /\ link_history = {}
    /\ next_id = [warnings |-> 1, mutes |-> 1]
    /\ muted_role = [g \in Guilds |-> 0]
    /\ overwrites = [g \in Guilds |-> {}]
    /\ member_roles = [g \in Guilds |-> [u \in Users |-> {}]]
    /\ tasks = [t \in TaskIds |-> Idle]
    /\ sweep = SweepIdle

Init ==
    /\ InitBot
    /\ tz_offset \in TZOffsets
    /\ a_pc = "off"
    /\ a_in = NoInput
    /\ a_out = analyze_link(NoInput)

Next ==
    \/ \E t \in TaskIds : on_message(t)
    \/ \E t \in TaskIds : process_links(t)
    \/ \E t \in TaskIds : add_warning(t)
    \/ \E t \in TaskIds : count(t)
    \/ \E t \in TaskIds : mute_user(t)
    \/ \E t \in TaskIds : create_role(t)
    \/ \E t \in TaskIds : add_roles(t)
    \/ \E t \in TaskIds : mute_user_add_mute(t)
    \/ \E t \in TaskIds : process_links_next(t)
    \/ \E t \in TaskIds : check_warnings(t)
    \/ \E t \in TaskIds : unmute_user(t)
    \/ \E t \in TaskIds : unmute_remove_mute(t)
    \/ check_expired_mutes
    \/ check_expired_mutes_loop
    \/ check_expired_mutes_remove
    \/ Tick

Spec == Init /\ [][Next]_vars

-----------------------------------------------------------------------------
(* One analysis of one URL: the inputs are drawn by Init, the action       *)
(* applies analyze_link.                                                   *)

\* analyses that end within the overall deadline.  The indicator the AI
\* reply lists can be the very flag the heuristic raised.
TimelyInputs ==
    [completed : {0, 3, 6},
     sum : {0 - Tenths(2), 0, Tenths(2), Tenths(8), One + Tenths(2)},
     basic_flags : {NoFlags, <<"Suspicious TLD">>},
     fetch_ok : BOOLEAN, ai_call : {"fail", "unparsable", "ok"},
     ai_level : {"high", "medium", "low", "none"},
     ai_conf : {0, Tenths(4), Tenths(5), One, One + Tenths(5)},
     indicators : {NoFlags, <<"Suspicious TLD">>},
     search_found : BOOLEAN, rep_call : {"fail", "not_object", "ok"},
     has_complaints : BOOLEAN, provider : Providers, overdue : {FALSE}]

\* analyses that take longer than the overall deadline: nothing in
\* process_links or analyze_link measures the time, each request has the
\* timeout of its own session call only
OverdueInputs == {[in EXCEPT !.overdue = TRUE] : in \in UrlInputs}

AnalysisInputs == TimelyInputs \cup OverdueInputs

InitAnalysis ==
    /\ InitBot
    /\ tz_offset = 0
    /\ a_pc = "ready"
    /\ a_in \in AnalysisInputs
    /\ a_out = analyze_link(NoInput)

\* one iteration of process_links by the first handler, the calls to
\* Discord succeeding: analyze_link, then the branch of
\* handle_analysis_result or the except handler, seen in the handler's level
\* and advisory
RunAnalyzeLink ==
    LET result == analyze_link(a_in) IN
    /\ a_pc = "ready"
    /\ a_out' = result
    /\ a_pc' = "done"
    /\ tasks' = [tasks EXCEPT ![1] =
                   [Idle EXCEPT !.level = result.threat_level,
                                !.escalated = ~result.raised /\ escalates(result),
                                !.advisory = IF result.raised THEN "error"
                                             ELSE handle_analysis_result(result)]]
    /\ UNCHANGED <<env_vars, now, db_vars, guild_vars, sweep, a_in>>

NextAnalysis == RunAnalyzeLink

SpecAnalysis == InitAnalysis /\ [][NextAnalysis]_vars

-----------------------------------------------------------------------------
(* The store by itself: warnings of several guilds and users are written   *)
(* and queried.                                                            *)

MaxRows == 3

StoreGuilds == {1, 2}
StoreUsers == {1, 2}

InitStore ==
    /\ InitBot
    /\ ~urllib_imported
    /\ tz_offset = 0
    /\ a_pc = "store"
    /\ a_in = [guild |-> 1, user |-> 1]
    /\ a_out = {}

\* Database.add_warning, lines 70-75
Store_add_warning ==
    /\ next_id.warnings <= MaxRows
    /\ \E g \in StoreGuilds, u \in StoreUsers : Database_insert_warning(g, u)
    /\ UNCHANGED <<env_vars, now, mutes, bans, link_history, guild_vars, tasks,
                   sweep, analysis_vars>>

\* Database.get_warnings, lines 85-103: the rows of the reply
Store_get_warnings ==
    /\ \E g \in StoreGuilds, u \in StoreUsers :
         /\ a_in' = [guild |-> g, user |-> u]
         /\ a_out' = get_warnings(g, u)
    /\ a_pc' = "queried"
    /\ UNCHANGED <<env_vars, now, db_vars, guild_vars, tasks, sweep>>

NextStore ==
    \/ Store_add_warning
    \/ Store_get_warnings

SpecStore == InitStore /\ [][NextStore]_vars

-----------------------------------------------------------------------------
(* Properties of the scoring, under SpecAnalysis                           *)

Returned == a_pc = "done" /\ ~a_out.raised

\* twice avg_score of the analysis that returned
AvgScore2 == a_out.basic.threat_score + a_out.ai.threat_score

\* C6: the threat level is a function of avg_score alone: danger from 0.8
\* on, suspicious from 0.5 up to 0.8, caution from 0.2 up to 0.5, safe
\* below 0.2; the boundaries 0.2, 0.5, 0.8 go to the higher bucket and the
\* level is never 'unknown'.
C6_LevelIsBucketOfAvgScore ==
    Returned =>
      /\ a_out.threat_level \in Levels
      /\ a_out.threat_level = "danger" <=> AvgScore2 >= 2 * Tenths(8)
      /\ a_out.threat_level = "suspicious" <=>
           (AvgScore2 >= 2 * Tenths(5) /\ AvgScore2 < 2 * Tenths(8))
      /\ a_out.threat_level = "caution" <=>
           (AvgScore2 >= 2 * Tenths(2) /\ AvgScore2 < 2 * Tenths(5))
      /\ a_out.threat_level = "safe" <=> AvgScore2 < 2 * Tenths(2)

\* C6 witness: an analysis whose avg_score is exactly 0.8 came out danger
C6_Witness ==
    Returned /\ AvgScore2 = 2 * Tenths(8) /\ a_out.threat_level = "danger"

\* C7: the AI verdict's threat_score and confidence lie in [0,1], and so do
\* the combined score and confidence whenever the basic verdict's do.
C7_AIVerdictInUnitRange ==
    Returned =>
      /\ a_out.ai.threat_score \in 0..One
      /\ a_out.ai.confidence \in 0..One
      /\ (a_out.basic.threat_score \in 0..One /\ a_out.basic.confidence \in 0..One)
           => (AvgScore2 \in 0..(2 * One) /\ a_out.confidence2 \in 0..(2 * One))

\* C8: a basic verdict carrying the known-malicious contribution (0.8)
\* makes the combined level danger whatever the AI verdict.
C8_MaliciousIsDanger ==
    (Returned /\ a_out.basic.threat_score = Tenths(8))
      => a_out.threat_level = "danger"

\* C9: with the IP-literal contribution (0.2) as the only signal and an AI
\* verdict of score 0, the combined level is caution.
C9_IPLiteralIsCaution ==
    (Returned /\ a_out.basic.threat_score = Tenths(2)
              /\ a_out.ai.threat_score = 0)
      => a_out.threat_level = "caution"

\* every check and every AI step of the analysis failed
AllFailed(in) ==
    /\ in.completed = 0
    /\ ~in.fetch_ok
    /\ in.ai_call = "fail"
    /\ ~in.search_found
    /\ in.rep_call = "fail"

\* C10: when every check and every AI step fails, analyze_link still
\* returns a verdict: score 0, confidence 0, level safe.
C10_AllFailedStillReturnsSafe ==
    (a_pc = "done" /\ AllFailed(a_in)) =>
      /\ ~a_out.raised
      /\ AvgScore2 = 0
      /\ a_out.confidence2 = 0
      /\ a_out.threat_level = "safe"

-----------------------------------------------------------------------------
(* Properties of the moderation flow, under Spec                           *)

ActiveMutes(g, u) == {m \in get_active_mutes(g) : m.user_id = u}

\* C1: the mutes table never holds two rows with mute_end > now for one
\* (guild, user).
C1_AtMostOneActiveMute ==
    \A g \in Guilds, u \in Users : Cardinality(ActiveMutes(g, u)) <= 1

\* C2: every row whose mute_end has passed is deleted by the next run of
\* the sweep: it is among the rows the sweep reads (get_active_mutes) and
\* then unmutes.
C2_SweepTakesExpiredMutes ==
    \A m \in mutes : expired(m) => m \in get_active_mutes(m.guild_id)

\* C3: the message of an author who has an active mute when on_message runs
\* is not processed any further (no link analysis, no command), whatever
\* the delete attempt gave.
C3_MutedAuthorIsGated ==
    [][\A t \in TaskIds :
         (tasks[t].pc = "idle" /\ tasks'[t].pc # "idle")
           => ~is_user_muted(tasks'[t].guild, tasks'[t].author)]_vars

\* the step in which task t handles a danger verdict of confidence > 0.7:
\* process_links takes the danger branch
HandlesConfidentDanger(t) ==
    /\ tasks[t].pc = "process_links"
    /\ tasks'[t].escalated

\* C4: each handled danger verdict of confidence > 0.7 adds exactly one
\* warning row of the author; nothing else changes the warnings table.
C4_OneWarningPerConfidentDanger ==
    [][/\ \A t \in TaskIds :
            HandlesConfidentDanger(t) => tasks'[t].pc = "add_warning"
       /\ warnings' # warnings =>
            \E t \in TaskIds :
              /\ tasks[t].pc = "add_warning"
              /\ tasks'[t].pc = "count"
              /\ count_warnings(tasks[t].guild, tasks[t].author)' =
                   count_warnings(tasks[t].guild, tasks[t].author) + 1
              /\ Cardinality(warnings') = Cardinality(warnings) + 1]_vars

\* the step in which task t ends the handling of a danger incident whose
\* warning count reached the mute threshold
EndsThresholdIncident(t) ==
    /\ tasks[t].pc \in {"count", "mute_user", "create_role", "add_roles", "add_mute"}
    /\ tasks'[t].pc \in {"url_done", "idle"}
    /\ count_warnings(tasks[t].guild, tasks[t].author) >= 3

\* C5: when the handling of the third danger incident ends, a mute row
\* with mute_end = now + the mute duration exists for the author, the
\* author holds the Muted role, and that role is denied in every channel.
C5_ThirdIncidentMutes ==
    [][\A t \in TaskIds :
         EndsThresholdIncident(t) =>
           LET g == tasks[t].guild
               u == tasks[t].author
           IN  /\ \E m \in mutes' :
                    /\ m.guild_id = g /\ m.user_id = u
                    /\ m.mute_end = local_now + duration_days * TicksPerDay
               /\ \E r \in member_roles'[g][u] :
                    \A c \in Channels : <<r, c>> \in overwrites'[g]]_vars

-----------------------------------------------------------------------------
(* Properties of AIAnalyzer.analyze, under SpecAnalysis                    *)

\* the threat score ai_content_analysis gives a parsed reply
ContentScore(in) ==
    CASE in.ai_level = "high"   -> Tenths(8)
      [] in.ai_level = "medium" -> Tenths(5)
      [] in.ai_level = "low"    -> Tenths(2)
      [] OTHER                  -> 0

\* C11: when the classification call fails or its reply cannot be parsed,
\* the verdict AIAnalyzer.analyze returns has threat_score 0, confidence 0
\* and exactly one flag, whichever provider is configured.
C11_FailedAICallIsNeutral ==
    (a_pc = "done" /\ a_in.fetch_ok /\ a_in.ai_call \in {"fail", "unparsable"})
      => /\ ~a_out.ai.raised
         /\ a_out.ai.threat_score = 0
         /\ a_out.ai.confidence = 0
         /\ Len(a_out.ai.flags) = 1

\* C12: AIAnalyzer.analyze returns a verdict for every outcome of its
\* steps, and each branch's result is used whatever became of the other:
\* a parsed classification gives its score and indicators, a reputation
\* judgment with complaints gives its flag.
C12_AnalyzeNeverRaises ==
    a_pc = "done" =>
      /\ ~a_out.ai.raised
      /\ (a_in.fetch_ok /\ a_in.ai_call = "ok") =>
           /\ a_out.ai.threat_score >= ContentScore(a_in)
           /\ SubSeq(a_out.ai.flags, 1, Len(a_in.indicators)) = a_in.indicators
      /\ (a_in.search_found /\ a_in.rep_call = "ok" /\ a_in.has_complaints) =>
           /\ Len(a_out.ai.flags) > 0
           /\ a_out.ai.flags[Len(a_out.ai.flags)] =
                "Negative reviews/complaints found"

-----------------------------------------------------------------------------
(* Properties of the failure paths and of the commands, under Spec         *)

\* the steps of handle_analysis_result after the warning is stored
AfterWarning == {"count", "mute_user", "create_role", "add_roles", "add_mute"}

\* C13: a side effect that fails during a danger escalation (delete,
\* advisory or admin notification, role creation or assignment) does not
\* keep the records from being written: the warning is appended, and once
\* the count has reached the threshold the escalation ends only by writing
\* the mute row.
C13_SideEffectFailureKeepsRecords ==
    [][\A t \in TaskIds :
         /\ HandlesConfidentDanger(t) => tasks'[t].pc = "add_warning"
         /\ ( /\ tasks[t].pc \in AfterWarning \ {"add_mute"}
              /\ tasks'[t].pc \notin AfterWarning
              /\ count_warnings(tasks[t].guild, tasks[t].author) >= 3 )
              => FALSE]_vars

\* C14: when a store write fails, nothing of the operation stays behind:
\* after a failed add_mute the member does not hold the role that mute_user
\* granted unless a mute row exists for the member, and after a failed
\* remove_mute the member still holds the role that unmute_user removed.
C14_FailedWriteChangesNothing ==
    [][\A t \in TaskIds :
         LET rec == tasks[t] IN
         /\ ( /\ rec.pc = "add_mute" /\ tasks'[t].pc # "add_mute"
              /\ mutes' = mutes )
              => \/ rec.role \notin member_roles'[rec.guild][rec.author]
                 \/ \E m \in mutes' : /\ m.guild_id = rec.guild
                                      /\ m.user_id = rec.author
         /\ ( /\ rec.pc = "remove_mute" /\ tasks'[t].pc # "remove_mute"
              /\ mutes' = mutes /\ rec.role # 0
              /\ \E m \in mutes : m.guild_id = rec.guild /\ m.user_id = rec.target )
              => rec.role \in member_roles'[rec.guild][rec.target]]_vars

LowerLevels == {"suspicious", "caution", "safe"}

\* C15: handling a verdict of level suspicious, caution or safe changes no
\* table and no member's roles and does not delete the message: the step
\* only sets the advisory and the URL is done.
C15_LowerLevelsChangeNothing ==
    [][\A t \in TaskIds :
         ( /\ tasks[t].pc = "process_links"
           /\ tasks'[t].level \in LowerLevels )
           => /\ tasks'[t].pc = "url_done"
              /\ tasks'[t].advisory \in {"suspicious", "caution",
                                         "safe_deleted", "error"}
              /\ tasks'[t].deleted = tasks[t].deleted
              /\ ~tasks'[t].escalated
              /\ UNCHANGED <<warnings, mutes, bans, link_history, next_id,
                             member_roles, muted_role, overwrites>>]_vars

\* C15 witness: a URL of level suspicious is done, with its advisory, while
\* the author already has warnings
C15_Witness ==
    \E t \in TaskIds :
       /\ tasks[t].pc = "url_done"
       /\ tasks[t].level = "suspicious" /\ tasks[t].advisory = "suspicious"
       /\ count_warnings(tasks[t].guild, tasks[t].author) > 0

\* C16: an expired row that the sweep visits while the member has nothing
\* to remove (no Muted role in the guild, or the member does not hold it,
\* or the member has left) is deleted all the same: the sweep goes on to
\* remove_mute for it.
C16_SweepDeletesResolvedMutes ==
    [][( /\ sweep.pc = "loop"
         /\ sweep' # sweep
         /\ expired(FirstRow(sweep.todo))
         /\ unmute_user_roles(sweep.guild, FirstRow(sweep.todo).user_id)
              = member_roles )
         => /\ sweep'.pc = "remove_mute"
            /\ sweep'.target = FirstRow(sweep.todo).user_id]_vars

\* a mute_user call for member u of guild g is under way
Muting(g, u) ==
    \E k \in TaskIds :
       /\ tasks[k].pc \in {"mute_user", "create_role", "add_roles", "add_mute"}
       /\ tasks[k].guild = g /\ tasks[k].author = u

\* C17: when !unmute completes (the rows of the pair are deleted and the
\* handler returns) and no mute of the member is under way, the member
\* holds no Muted role, no mute row of the pair is left and is_user_muted
\* is false.
C17_UnmuteClearsRoleAndRows ==
    [][\A t \in TaskIds :
         LET rec == tasks[t] IN
         ( /\ rec.pc = "remove_mute" /\ tasks'[t].pc = "idle"
           /\ mutes' = remove_mute(rec.guild, rec.target)
           /\ ~Muting(rec.guild, rec.target) )
           => /\ member_roles'[rec.guild][rec.target] = {}
              /\ ~\E m \in mutes' : /\ m.guild_id = rec.guild
                                    /\ m.user_id = rec.target
              /\ ~is_user_muted(rec.guild, rec.target)']_vars

FinalAdvisories == {"danger", "suspicious", "caution", "safe_deleted", "error"}

\* C19: once handle_analysis_result is under way an error does not leave
\* process_links: the URL ends as done with a final advisory (the handler
\* goes on to the next URL), and every URL that is done has exactly one of
\* the final advisories, never 'analyzing'.
C19_ErrorsStayInProcessLinks ==
    [][\A t \in TaskIds :
         /\ ( /\ tasks[t].pc \in {"add_warning"} \cup AfterWarning
              /\ tasks'[t].pc \notin {"add_warning"} \cup AfterWarning )
              => tasks'[t].pc = "url_done"
         /\ tasks'[t].pc = "url_done" => tasks'[t].advisory \in FinalAdvisories]_vars

\* C20: warning rows are append-only: every row of the warnings table is
\* still there, unchanged, after every step.
C20_WarningsAppendOnly ==
    [][warnings \subseteq warnings']_vars

\* C20 witness: three warnings are stored although a mute row was written
\* and deleted again
C20_Witness ==
    /\ Cardinality(warnings) >= 3
    /\ next_id.mutes > 1
    /\ mutes = {}

-----------------------------------------------------------------------------
(* Properties of the warnings query, under SpecStore                       *)

\* the warnings table restricted to one pair
RowsOf(table, g, u) == {w \in table : w.guild_id = g /\ w.user_id = u}

\* C18: a query changes no table and its reply is exactly the rows of the
\* pair asked for, none of another guild or user; each add_warning adds one
\* row to the reply of its own pair and none to any other, so after n of
\* them the pair's reply has n rows.
C18_GetWarningsExact ==
    [][/\ (a_in' # a_in \/ a_out' # a_out \/ a_pc' # a_pc) =>
            /\ UNCHANGED db_vars
            /\ a_out' = RowsOf(warnings, a_in'.guild, a_in'.user)
       /\ warnings' # warnings =>
            \E g \in StoreGuilds, u \in StoreUsers :
               /\ Cardinality(get_warnings(g, u)') =
                    Cardinality(get_warnings(g, u)) + 1
               /\ get_warnings(g, u) \subseteq get_warnings(g, u)'
               /\ \A h \in StoreGuilds, v \in StoreUsers :
                     <<h, v>> # <<g, u>> => get_warnings(h, v)' = get_warnings(h, v)
      ]_vars

\* C18 witness: a reply of two rows for a user who has a third warning in
\* the other guild
C18_Witness ==
    /\ a_pc = "queried"
    /\ Cardinality(a_out) = 2
    /\ a_out = RowsOf(warnings, a_in.guild, a_in.user)
    /\ \E w \in warnings : w.user_id = a_in.user /\ w.guild_id # a_in.guild

-----------------------------------------------------------------------------
(* Properties of one iteration of process_links, under SpecAnalysis        *)

\* C21: an analysis that takes longer than the overall deadline is
\* abandoned: no escalation and no level advisory comes of its result, the
\* status message is marked as failed.
C21_OverdueAnalysisIsAbandoned ==
    (a_pc = "done" /\ a_in.overdue)
      => /\ tasks[1].advisory = "error"
         /\ ~tasks[1].escalated

\* C24: when the fetch gives no content, analyze still returns a verdict;
\* the backend is not called for a classification and the flag of a failed
\* classification is not added; the reputation branch runs, so the one
\* backend call made is the reputation judgment of a search that found
\* results.
C24_NoContentSkipsClassification ==
    (a_pc = "done" /\ ~a_in.fetch_ok)
      => /\ ~a_out.ai.raised
         /\ Len(a_out.ai.calls) = (IF a_in.search_found THEN 1 ELSE 0)
         /\ \A i \in DOMAIN a_out.ai.flags :
               a_out.ai.flags[i] # "AI analysis unavailable"

\* the reputation judgment reports complaints
Complaints(in) == in.search_found /\ in.rep_call = "ok" /\ in.has_complaints

\* the flags of the content classification alone
ContentFlags(in) ==
    IF ~in.fetch_ok THEN NoFlags
    ELSE IF in.ai_call = "ok" THEN in.indicators
    ELSE <<"AI analysis unavailable">>

\* C25: the AI verdict's score is 0.2, 0.5 or 0.8 for a parsed level of
\* low, medium or high (0 otherwise), plus 0.4 and one more flag exactly
\* when the reputation judgment has has_complaints true; without
\* complaints score and flags are those of the classification alone.
C25_AIScoreTable ==
    Returned =>
      LET content == IF a_in.fetch_ok /\ a_in.ai_call = "ok"
                     THEN ContentScore(a_in) ELSE 0
      IN  IF Complaints(a_in)
          THEN /\ a_out.ai.threat_score = content + Tenths(4)
               /\ Len(a_out.ai.flags) = Len(ContentFlags(a_in)) + 1
               /\ SubSeq(a_out.ai.flags, 1, Len(ContentFlags(a_in)))
                    = ContentFlags(a_in)
          ELSE /\ a_out.ai.threat_score = content
               /\ a_out.ai.flags = ContentFlags(a_in)

\* C25 witness: a classification of level medium with complaints found
\* scores 0.9
C25_Witness ==
    /\ Returned /\ Complaints(a_in)
    /\ a_in.fetch_ok /\ a_in.ai_call = "ok" /\ a_in.ai_level = "medium"
    /\ a_out.ai.threat_score = Tenths(9)

\* C26: the combined confidence is the plain average of the two
\* confidences, the combined flags are the basic flags followed by the AI
\* flags with duplicates kept, and the danger branch is taken on that
\* average being above 0.7.
C26_ConfidenceIsAverage ==
    Returned =>
      LET basic_conf == (a_in.completed * One) \div TotalChecks IN
      /\ a_out.confidence2 = basic_conf + a_out.ai.confidence
      /\ a_out.reasons = a_out.basic.flags \o a_out.ai.flags
      /\ Len(a_out.reasons) = Len(a_out.basic.flags) + Len(a_out.ai.flags)
      /\ tasks[1].escalated <=>
           ( /\ a_out.threat_level = "danger"
             /\ basic_conf + a_out.ai.confidence > 2 * Tenths(7) )

\* C26 witness: the danger branch taken on an average of 0.75 with the
\* basic confidence at 0.5, the same flag from both sides kept twice
C26_Witness ==
    /\ Returned
    /\ tasks[1].escalated
    /\ a_out.basic.confidence = Tenths(5)
    /\ a_out.ai.confidence = One
    /\ a_out.reasons = <<"Suspicious TLD", "Suspicious TLD">>

\* C27: every backend call of one analysis, the content classification and
\* the reputation judgment alike, goes to the configured provider.
C27_OneBackendPerAnalysis ==
    a_pc = "done" =>
      \A i \in DOMAIN a_out.ai.calls : a_out.ai.calls[i] = a_in.provider

-----------------------------------------------------------------------------
(* Properties of the escalation order and of the roles, under Spec         *)

\* the step in which task t comes to position pc
Enters(t, pc) == tasks[t].pc # pc /\ tasks'[t].pc = pc

\* C22: the delete attempt comes before the warning is appended and the
\* warning before any mute: mute_user is entered only from the threshold
\* test of an incident whose warning is stored, with a count of at least 3,
\* and a mute row is written only by mute_user; so every mute row belongs
\* to a pair that has at least 3 warnings.
C22_MuteOnlyAfterThreeWarnings ==
    [][/\ \A t \in TaskIds :
            /\ Enters(t, "add_warning") =>
                 tasks[t].pc = "process_links" /\ tasks'[t].escalated
            /\ Enters(t, "count") =>
                 /\ tasks[t].pc = "add_warning"
                 /\ warnings' = warnings \cup
                      {WarningRow(next_id.warnings, tasks[t].guild, tasks[t].author)}
            /\ Enters(t, "mute_user") =>
                 /\ tasks[t].pc = "count"
                 /\ count_warnings(tasks[t].guild, tasks[t].author) >= 3
       /\ mutes' # mutes /\ ~(mutes' \subseteq mutes) =>
            \E t \in TaskIds : tasks[t].pc = "add_mute"
       /\ \A m \in mutes' : count_warnings(m.guild_id, m.user_id)' >= 3]_vars

\* C22 witness: a mute row of a pair that has exactly 3 warnings
C22_Witness ==
    \E m \in mutes : count_warnings(m.guild_id, m.user_id) = 3

\* C23: however mute_user calls follow or overlap, a guild has at most one
\* role named Muted and a member holds at most one.
C23_OneMutedRole ==
    \A g \in Guilds :
       /\ muted_role[g] <= 1
       /\ \A u \in Users : Cardinality(member_roles[g][u]) <= 1

\* C28: once a pair has 3 or more warnings, the handling of every further
\* danger incident of the pair ends with a new mute row written for it,
\* whatever mutes were written, lifted or expired before.
C28_ReMuteOnHistoricalCount ==
    [][\A t \in TaskIds :
         EndsThresholdIncident(t) =>
           /\ tasks[t].pc = "add_mute"
           /\ \E m \in mutes' \ mutes :
                 /\ m.guild_id = tasks[t].guild
                 /\ m.user_id = tasks[t].author]_vars

\* no mute, unmute or sweep is under way
Quiescent ==
    /\ sweep.pc = "idle"
    /\ \A t \in TaskIds :
         tasks[t].pc \notin {"mute_user", "create_role", "add_roles", "add_mute",
                             "unmute_user", "remove_mute"}

\* C30: in a quiescent state a member holds a Muted role exactly when the
\* pair has a mute row with mute_end > now.
C30_RoleIffActiveMute ==
    Quiescent =>
      \A g \in Guilds, u \in Users :
         member_roles[g][u] # {} <=> ActiveMutes(g, u) # {}

-----------------------------------------------------------------------------
(* Properties of the mute gate and of the warning count, under Spec        *)

\* C31: while a pair has an active mute row no warning is appended for it:
\* every step that adds a warning row is taken for an author who is not
\* muted at that moment.
C31_NoWarningWhileMuted ==
    [][\A t \in TaskIds :
         ( /\ tasks[t].pc = "add_warning"
           /\ count_warnings(tasks[t].guild, tasks[t].author)' >
                count_warnings(tasks[t].guild, tasks[t].author) )
           => ~is_user_muted(tasks[t].guild, tasks[t].author)]_vars

\* C32: concurrent add_warning calls of one pair return pairwise distinct
\* counts, each its own previous count + 1.  A call returns the count at
\* the moment of its count query: it is previous + 1 for every call only if
\* no two calls of a pair are between their insert and their count query
\* at once (the earlier insert's call would count the later row as well).
C32_CountsAreDistinct ==
    \A t, k \in TaskIds :
       ( /\ t # k
         /\ tasks[t].pc = "count" /\ tasks[k].pc = "count"
         /\ tasks[t].guild = tasks[k].guild )
         => tasks[t].author # tasks[k].author

\* C33: is_user_muted(guild, user) is true exactly when the mutes table has
\* a row of that guild and user whose mute_end, a reading of the clock
\* that wrote it (datetime.now()), has not passed.
C33_MutedIffActiveRow ==
    \A g \in Guilds, u \in Users :
       is_user_muted(g, u) <=>
         \E m \in mutes : /\ m.guild_id = g /\ m.user_id = u
                          /\ m.mute_end > local_now

====
